---- MODULE Spec2Model ----
(***************************************************************************)
(* Model of the moira data model (package moira) and of the trigger search *)
(* index (package index, index/bleve).                                     *)
(*                                                                         *)
(* The module holds one specification per group of operations:             *)
(*   SpecScore   CheckData.UpdateScore                                     *)
(*   SpecCheck   CheckData.GetOrCreateMetricState and the trigger check    *)
(*   SpecIgnore  SubscriptionData.MustIgnore                               *)
(*   SpecSched   ScheduleData.IsScheduleAllows                             *)
(*   SpecKey     ScheduledNotification.GetKey                              *)
(*   SpecSearch  Index.SearchTriggers / TriggerIndex.Search                *)
(* Each specification moves its own variables and leaves the others at     *)
(* their initial values.                                                   *)
(***************************************************************************)
EXTENDS Integers, Sequences, FiniteSets, TLC

VARIABLES
    trigger,      \* Trigger: the TTL and TTLState fields the check reads
    checkData,    \* CheckData
    ret,          \* what the last CheckData operation returned
    subscription, \* SubscriptionData: IgnoreWarnings, IgnoreRecoverings
    eventData,    \* NotificationEvent: OldState, State
    ignoreRet,    \* result of MustIgnore
    schedule,     \* *ScheduleData, NilSchedule for a nil pointer
    schedTs,      \* argument ts of IsScheduleAllows
    schedRet,     \* result of IsScheduleAllows
    n1, n2,       \* two ScheduledNotifications
    changes,      \* number of fields of n2 that were rewritten
    keys,         \* the two keys GetKey returned
    docs,         \* documents of the bleve index
    toFill,       \* triggers fillIndex has still to put into the index
    indexed,      \* Index.indexed, the ready flag
    searchRet,    \* result of SearchTriggers
    events,       \* NotificationEvents
    subjectRet    \* result of GetSubjectState

checkVars  == <<trigger, checkData, ret>>
ignoreVars == <<subscription, eventData, ignoreRet>>
schedVars  == <<schedule, schedTs, schedRet>>
keyVars    == <<n1, n2, changes, keys>>
searchVars == <<docs, toFill, indexed, searchRet>>
subjectVars == <<events, subjectRet>>
vars == <<checkVars, ignoreVars, schedVars, keyVars, searchVars, subjectVars>>

Nil == "nil"
None == [op |-> "none"]

(***************************************************************************)
(* Generic helpers                                                         *)
(***************************************************************************)
\* Go's % truncates toward zero: the result has the sign of the dividend.
GoMod(a, b) == IF a >= 0 THEN a % b ELSE -((-a) % b)

RECURSIVE SumOver(_, _)
SumOver(f, S) ==
    IF S = {} THEN 0
    ELSE LET x == CHOOSE y \in S : TRUE IN f[x] + SumOver(f, S \ {x})

(***************************************************************************)
(* States and weights                                                      *)
(***************************************************************************)
\* Every state string the data model uses: the keys of scores, the entries
\* of eventStates.
States == {"OK", "DEL", "WARN", "ERROR", "NODATA", "EXCEPTION", "TEST"}

\* var scores: a Go map lookup of a missing key yields the zero value.
scores(state) ==
    CASE state = "OK" -> 0
      [] state = "DEL" -> 0
      [] state = "WARN" -> 1
      [] state = "ERROR" -> 100
      [] state = "NODATA" -> 1000
      [] state = "EXCEPTION" -> 100000
      [] OTHER -> 0

\* var eventStateWeight, with the "ok" flag of the two-valued map lookup.
eventStateWeightOk(state) == state \in {"OK", "WARN", "ERROR", "NODATA"}

eventStateWeight(state) ==
    CASE state = "OK" -> 0
      [] state = "WARN" -> 1
      [] state = "ERROR" -> 100
      [] state = "NODATA" -> 10000
      [] OTHER -> 0

(***************************************************************************)
(* CheckData                                                               *)
(***************************************************************************)
MetricNames == {"m1", "m2"}

\* Values of time.Now().Unix() the model draws from.
Nows == {1000, 1400}
\* Times at which the trigger is checked.
CheckTimes == {1200, 1400}
\* Values of the emptyTimestampValue argument.
EmptyTimestamps == {0, 880}
\* The ttl values of a trigger (0: no stale detection) and its ttl states.
TTLs == {0, 300}
TTLStates == {"NODATA", "DEL"}

\* MetricState{}: the zero value of the struct.
ZeroMetricState ==
    [EventTimestamp |-> 0, State |-> "", Suppressed |-> FALSE,
     SuppressedState |-> "", Timestamp |-> 0, Value |-> Nil, Maintenance |-> 0]

\* createEmptyMetricState that stamps a muted metric with the default timestamp.
createEmptyMetricStateDefaultTs(defaultTimestampValue, firstStateIsNodata, unixNow) ==
    IF firstStateIsNodata
    THEN [ZeroMetricState EXCEPT !.State = "NODATA",
                                 !.Timestamp = defaultTimestampValue]
    ELSE [ZeroMetricState EXCEPT !.State = "OK",
                                 !.Timestamp = defaultTimestampValue,
                                 !.EventTimestamp = unixNow]

\* createEmptyMetricState; unixNow is the value time.Now().Unix() returns.
createEmptyMetricState(defaultTimestampValue, firstStateIsNodata, unixNow) ==
    IF firstStateIsNodata
    THEN [ZeroMetricState EXCEPT !.State = "NODATA",
                                 !.Timestamp = defaultTimestampValue]
    ELSE [ZeroMetricState EXCEPT !.State = "OK",
                                 !.Timestamp = unixNow,
                                 !.EventTimestamp = unixNow]

\* The map checkData.Metrics after "checkData.Metrics[metric] = value".
MapPut(m, key, value) ==
    [k \in (DOMAIN m) \cup {key} |-> IF k = key THEN value ELSE m[k]]

\* GetOrCreateMetricState that stores a new state whether or not one is held.
GetOrCreateDataOverwrite(cd, metric, emptyTimestampValue, muteNewMetric, unixNow) ==
    [cd EXCEPT !.Metrics =
        MapPut(cd.Metrics, metric,
               createEmptyMetricState(emptyTimestampValue, ~muteNewMetric, unixNow))]

\* CheckData.GetOrCreateMetricState: the CheckData it leaves.
GetOrCreateData(cd, metric, emptyTimestampValue, muteNewMetric, unixNow) ==
    IF metric \notin DOMAIN cd.Metrics
    THEN [cd EXCEPT !.Metrics =
             MapPut(cd.Metrics, metric,
                    createEmptyMetricState(emptyTimestampValue, ~muteNewMetric, unixNow))]
    ELSE cd

\* CheckData.UpdateScore as a function of the CheckData: the new Score.
\* The loop over the map adds scores[metricData.State] for every entry; the
\* previous Score is overwritten by the first assignment.
\* UpdateScore without the first assignment: it adds to the Score it finds.
UpdatedScoreAccumulating(cd) ==
    cd.Score + scores(cd.State)
      + SumOver([m \in DOMAIN cd.Metrics |-> scores(cd.Metrics[m].State)], DOMAIN cd.Metrics)

\* UpdateScore that starts from zero instead of scores[checkData.State].
UpdatedScoreNoState(cd) ==
    SumOver([m \in DOMAIN cd.Metrics |-> scores(cd.Metrics[m].State)], DOMAIN cd.Metrics)

UpdatedScore(cd) ==
    scores(cd.State)
      + SumOver([m \in DOMAIN cd.Metrics |-> scores(cd.Metrics[m].State)], DOMAIN cd.Metrics)

(***************************************************************************)
(* The check of a trigger (check engine, steps 7, 8 and 10 of its          *)
(* algorithm): stale detection, aggregate state, score.                    *)
(***************************************************************************)
\* A metric is stale when its last sample is older than now - ttl; a ttl of
\* zero disables stale detection.
IsStale(ms, now) == trigger.TTL # 0 /\ ms.Timestamp < now - trigger.TTL

\* Stale metrics move to the ttl state; with the ttl state DEL they are removed.
AfterTTL(metrics, now) ==
    LET kept == {m \in DOMAIN metrics :
                    ~(IsStale(metrics[m], now) /\ trigger.TTLState = "DEL")}
    IN [m \in kept |->
          IF IsStale(metrics[m], now) /\ metrics[m].State # trigger.TTLState
          THEN [metrics[m] EXCEPT !.State = trigger.TTLState, !.EventTimestamp = now]
          ELSE metrics[m]]

\* Aggregate state: the priority maximum EXCEPTION > NODATA > ERROR > WARN > OK
\* over the metrics' states.
AggregateState(metrics) ==
    LET has(s) == \E m \in DOMAIN metrics : metrics[m].State = s
    IN CASE has("EXCEPTION") -> "EXCEPTION"
         [] has("NODATA") -> "NODATA"
         [] has("ERROR") -> "ERROR"
         [] has("WARN") -> "WARN"
         [] OTHER -> "OK"

CheckResult(cd, now) ==
    LET metrics == AfterTTL(cd.Metrics, now)
        state == AggregateState(metrics)
        cd1 == [cd EXCEPT !.Metrics = metrics,
                          !.State = state,
                          !.EventTimestamp = IF state # cd.State THEN now ELSE @,
                          !.Timestamp = now,
                          !.LastSuccessfulCheckTimestamp = now]
    IN [cd1 EXCEPT !.Score = UpdatedScore(cd1)]

(***************************************************************************)
(* Actions on CheckData                                                    *)
(***************************************************************************)
\* CheckData with an allocated, empty Metrics map and zero fields.
EmptyCheckData ==
    [Metrics |-> [m \in {} |-> ZeroMetricState], Score |-> 0, State |-> "OK",
     Maintenance |-> 0, Timestamp |-> 0, EventTimestamp |-> 0,
     LastSuccessfulCheckTimestamp |-> 0, Suppressed |-> FALSE,
     SuppressedState |-> "", Message |-> ""]

\* The checker assigns the aggregate state of the check.
SetState ==
    \E s \in States :
        /\ checkData' = [checkData EXCEPT !.State = s]
        /\ ret' = None
        /\ UNCHANGED <<trigger, ignoreVars, schedVars, keyVars, searchVars, subjectVars>>

\* The checker assigns the state of a metric it holds.
SetMetricState ==
    \E m \in DOMAIN checkData.Metrics, s \in States :
        /\ checkData' = [checkData EXCEPT !.Metrics[m].State = s]
        /\ ret' = None
        /\ UNCHANGED <<trigger, ignoreVars, schedVars, keyVars, searchVars, subjectVars>>

\* func (checkData *CheckData) UpdateScore() int64
\* ret.stale records that the Score the call found differed from the one it left.
UpdateScore ==
    /\ checkData' = [checkData EXCEPT !.Score = UpdatedScore(checkData)]
    /\ ret' = [op |-> "UpdateScore", val |-> checkData'.Score,
               stale |-> checkData.Score # checkData'.Score]
    /\ UNCHANGED <<trigger, ignoreVars, schedVars, keyVars, searchVars, subjectVars>>

\* func (checkData *CheckData) GetOrCreateMetricState(metric, emptyTimestampValue,
\* muteNewMetric) MetricState, with unixNow the value of time.Now().Unix().
GetOrCreateMetricStateWith(metric, emptyTimestampValue, muteNewMetric, unixNow) ==
    /\ checkData' = GetOrCreateData(checkData, metric, emptyTimestampValue,
                                    muteNewMetric, unixNow)
    /\ ret' = [op |-> "GetOrCreateMetricState", metric |-> metric,
               created |-> metric \notin DOMAIN checkData.Metrics,
               val |-> checkData'.Metrics[metric]]
    /\ UNCHANGED <<trigger, ignoreVars, schedVars, keyVars, searchVars, subjectVars>>

GetOrCreateMetricState ==
    \E metric \in MetricNames, emptyTimestampValue \in EmptyTimestamps,
       muteNewMetric \in BOOLEAN, unixNow \in Nows :
        GetOrCreateMetricStateWith(metric, emptyTimestampValue, muteNewMetric, unixNow)

\* One check of the trigger at time now.
CheckTriggerAt(now) ==
    /\ checkData' = CheckResult(checkData, now)
    /\ ret' = [op |-> "Check", now |-> now]
    /\ UNCHANGED <<trigger, ignoreVars, schedVars, keyVars, searchVars, subjectVars>>

CheckTrigger == \E now \in CheckTimes : CheckTriggerAt(now)

\* The inputs of UpdateScore: any aggregate state, any metric states, any
\* previous Score.
PrevScores == {0, 7}
MetricWithState(s) == [ZeroMetricState EXCEPT !.State = s]
MetricMaps ==
    UNION {[names -> {MetricWithState(s) : s \in States}] : names \in SUBSET MetricNames}

(***************************************************************************)
(* SubscriptionData.MustIgnore                                             *)
(***************************************************************************)
\* MustIgnore with delta == 1 widened to every escalation.
MustIgnoreAnyEscalation(sub, ev) ==
    IF eventStateWeightOk(ev.OldState) /\ eventStateWeightOk(ev.State)
    THEN LET delta == eventStateWeight(ev.State) - eventStateWeight(ev.OldState)
         IN IF delta < 0
            THEN IF delta = -1 /\ (sub.IgnoreRecoverings \/ sub.IgnoreWarnings)
                 THEN TRUE
                 ELSE sub.IgnoreRecoverings
            ELSE IF delta > 0 THEN sub.IgnoreWarnings ELSE FALSE
    ELSE FALSE

\* func (subscription *SubscriptionData) MustIgnore(eventData *NotificationEvent) bool
MustIgnore(sub, ev) ==
    IF eventStateWeightOk(ev.OldState)
    THEN IF eventStateWeightOk(ev.State)
         THEN LET delta == eventStateWeight(ev.State) - eventStateWeight(ev.OldState)
              IN IF delta < 0
                 THEN IF delta = -1 /\ (sub.IgnoreRecoverings \/ sub.IgnoreWarnings)
                      THEN TRUE
                      ELSE sub.IgnoreRecoverings
                 ELSE IF delta = 1 THEN sub.IgnoreWarnings ELSE FALSE
         ELSE FALSE
    ELSE FALSE

Subscriptions == [IgnoreWarnings : BOOLEAN, IgnoreRecoverings : BOOLEAN]
Events == [OldState : States, State : States]

\* The planner takes the next event for the subscription.
NextEvent ==
    /\ ignoreRet.op = "MustIgnore"
    /\ eventData' \in Events
    /\ ignoreRet' = None
    /\ UNCHANGED <<subscription, checkVars, schedVars, keyVars, searchVars, subjectVars>>

CallMustIgnore ==
    /\ ignoreRet' = [op |-> "MustIgnore", val |-> MustIgnore(subscription, eventData)]
    /\ UNCHANGED <<subscription, eventData, checkVars, schedVars, keyVars, searchVars, subjectVars>>

(***************************************************************************)
(* ScheduleData.IsScheduleAllows                                           *)
(***************************************************************************)
MinutesPerDay == 1440
SecondsPerDay == 86400

\* time.Unix(sec, 0).UTC().Weekday(): Sunday = 0; 1970-01-01 was a Thursday.
\* The time package computes it for every instant, before the epoch too.
Weekday(sec) == (4 + (sec \div SecondsPerDay)) % 7

\* The index into schedule.Days: int(date.Weekday()+6)%7, Monday = 0.
DayIndex(sec) == (Weekday(sec) + 6) % 7

\* timestamp := ts - ts%60 - schedule.TimezoneOffset*60
ShiftedTimestamp(sch, ts) == ts - GoMod(ts, 60) - sch.TimezoneOffset * 60

\* The window test with the end of a window that does not wrap excluded.
InWindowEndExclusive(sch, timestamp) ==
    LET endOffset == IF sch.EndOffset < sch.StartOffset
                     THEN sch.EndOffset + 24 * 60
                     ELSE sch.EndOffset
        dayStart == timestamp - GoMod(timestamp, 24 * 3600)
        startDayTime == dayStart + sch.StartOffset * 60
        endDayTime == dayStart + endOffset * 60
    IN IF endOffset < 24 * 60
       THEN timestamp >= startDayTime /\ timestamp < endDayTime
       ELSE timestamp < endDayTime - 3600 * 24 \/ timestamp > startDayTime

\* The window test of IsScheduleAllows (lines 242-264), after the day test.
\* Instants are compared as seconds: time.Time's After, Before and Equal.
InWindow(sch, timestamp) ==
    LET endOffset == IF sch.EndOffset < sch.StartOffset
                     THEN sch.EndOffset + 24 * 60
                     ELSE sch.EndOffset
        startOffset == sch.StartOffset
        date == timestamp
        dayStart == timestamp - GoMod(timestamp, 24 * 3600)
        startDayTime == dayStart + startOffset * 60
        endDayTime == dayStart + endOffset * 60
    IN IF endOffset < 24 * 60
       THEN (date > startDayTime \/ date = startDayTime)
              /\ (date < endDayTime \/ date = endDayTime)
       ELSE LET endDayTime2 == endDayTime - 3600 * 24
            IN date < endDayTime2 \/ date > startDayTime

\* IsScheduleAllows that takes, after midnight in a wrapping window, the flag of
\* the day before.
IsScheduleAllowsStartDay(sch, ts) ==
    IF sch.nil
    THEN [panic |-> FALSE, val |-> TRUE]
    ELSE LET timestamp == ShiftedTimestamp(sch, ts)
             wraps == sch.EndOffset < sch.StartOffset
             early == (timestamp % (24 * 3600)) < sch.EndOffset * 60
             idx == IF wraps /\ early
                    THEN (DayIndex(timestamp) + 6) % 7
                    ELSE DayIndex(timestamp)
         IN IF idx >= Len(sch.Days)
            THEN [panic |-> TRUE, val |-> FALSE]
            ELSE IF ~sch.Days[idx + 1]
                 THEN [panic |-> FALSE, val |-> FALSE]
                 ELSE [panic |-> FALSE, val |-> InWindow(sch, timestamp)]

\* func (schedule *ScheduleData) IsScheduleAllows(ts int64) bool
\* The result is [panic, val]: indexing schedule.Days past its length is a
\* run-time panic (index out of range).
IsScheduleAllows(sch, ts) ==
    IF sch.nil
    THEN [panic |-> FALSE, val |-> TRUE]
    ELSE LET timestamp == ShiftedTimestamp(sch, ts)
             idx == DayIndex(timestamp)
         IN IF idx >= Len(sch.Days)
            THEN [panic |-> TRUE, val |-> FALSE]
            ELSE IF ~sch.Days[idx + 1]
                 THEN [panic |-> FALSE, val |-> FALSE]
                 ELSE [panic |-> FALSE, val |-> InWindow(sch, timestamp)]

\* Inputs.  Days hold the Enabled flag of each entry, Monday first.
MaxDay == 7
AllDays == <<TRUE, TRUE, TRUE, TRUE, TRUE, TRUE, TRUE>>
OnlyMonday == <<TRUE, FALSE, FALSE, FALSE, FALSE, FALSE, FALSE>>
AllButMonday == <<FALSE, TRUE, TRUE, TRUE, TRUE, TRUE, TRUE>>
NoDay == <<FALSE, FALSE, FALSE, FALSE, FALSE, FALSE, FALSE>>
DayLists == {AllDays, OnlyMonday, AllButMonday, NoDay, <<>>, <<TRUE, TRUE, TRUE>>}
Offsets == {0, 360, 600, 1320}
TimezoneOffsets == {0, -180, 60}
\* A nil *ScheduleData, and the pointers to a ScheduleData.
NilSchedule == [nil |-> TRUE]
Schedules ==
    {NilSchedule} \cup [nil : {FALSE}, Days : DayLists, TimezoneOffset : TimezoneOffsets,
                        StartOffset : Offsets, EndOffset : Offsets]
MinutesOfDay == {0, 300, 359, 360, 361, 600, 1319, 1320, 1321, 1380, 1439}
Timestamps ==
    {d * SecondsPerDay + m * 60 + sec : d \in -1 .. MaxDay, m \in MinutesOfDay, sec \in {0, 59}}

CallIsScheduleAllows ==
    /\ schedRet.op = "none"
    /\ schedRet' = [op |-> "IsScheduleAllows"] @@ IsScheduleAllows(schedule, schedTs)
    /\ UNCHANGED <<schedule, schedTs, checkVars, ignoreVars, keyVars, searchVars, subjectVars>>

\* The next event arrives at another time.
NextTimestamp ==
    /\ schedRet.op = "IsScheduleAllows"
    /\ schedTs' \in {t \in Timestamps :
                       t > schedTs /\ ~\E u \in Timestamps : schedTs < u /\ u < t}
    /\ schedRet' = None
    /\ UNCHANGED <<schedule, checkVars, ignoreVars, keyVars, searchVars, subjectVars>>

(***************************************************************************)
(* ScheduledNotification.GetKey                                            *)
(* Strings are sequences of characters, so that the text fmt.Sprintf       *)
(* builds is compared character by character.                              *)
(***************************************************************************)
RECURSIVE Digits(_)
Digits(n) ==
    LET d == <<"0", "1", "2", "3", "4", "5", "6", "7", "8", "9">>[(n % 10) + 1]
    IN IF n < 10 THEN <<d>> ELSE Digits(n \div 10) \o <<d>>

\* The verb %d.
FormatInt(n) == IF n < 0 THEN <<"-">> \o Digits(-n) ELSE Digits(n)

\* The verb %t.
FormatBool(b) ==
    IF b THEN <<"t", "r", "u", "e">> ELSE <<"f", "a", "l", "s", "e">>

\* A float64 is held as a whole number of FloatUnit-ths (1/10000000).
FloatUnit == 10000000

\* The value rounded to six decimals, in millionths.  The values of the model
\* are never half way between two millionths.
Micros(f) ==
    LET a == IF f < 0 THEN -f ELSE f
        q == (a + 5) \div 10
    IN IF f < 0 THEN -q ELSE q

\* The verb %f: six digits after the point.
FormatFloat(f) ==
    LET q == Micros(f)
        a == IF q < 0 THEN -q ELSE q
        frac == Digits(1000000 + (a % 1000000))
    IN (IF q < 0 THEN <<"-">> ELSE <<>>) \o Digits(a \div 1000000) \o <<".">>
         \o SubSeq(frac, 2, 7)

\* UseFloat64: the value a *float64 points to, 0 for nil.
UseFloat64(v) == IF v.present THEN v.f ELSE 0

Colon == <<":">>

\* GetKey without the SendFail field.
GetKeyNoSendFail(notification) ==
    notification.Contact.Type \o Colon
      \o notification.Contact.Value \o Colon
      \o notification.Event.TriggerID \o Colon
      \o notification.Event.Metric \o Colon
      \o notification.Event.State \o Colon
      \o FormatInt(notification.Event.Timestamp) \o Colon
      \o FormatFloat(UseFloat64(notification.Event.Value)) \o Colon
      \o FormatBool(notification.Throttled) \o Colon
      \o FormatInt(notification.Timestamp)

\* func (notification *ScheduledNotification) GetKey() string
\* fmt.Sprintf("%s:%s:%s:%s:%s:%d:%f:%d:%t:%d", ...)
GetKey(notification) ==
    notification.Contact.Type \o Colon
      \o notification.Contact.Value \o Colon
      \o notification.Event.TriggerID \o Colon
      \o notification.Event.Metric \o Colon
      \o notification.Event.State \o Colon
      \o FormatInt(notification.Event.Timestamp) \o Colon
      \o FormatFloat(UseFloat64(notification.Event.Value)) \o Colon
      \o FormatInt(notification.SendFail) \o Colon
      \o FormatBool(notification.Throttled) \o Colon
      \o FormatInt(notification.Timestamp)

\* The field values of the model.
StrA == <<"a">>
StrAB == <<"a", ":", "b">>
StrBC == <<"b", ":", "c">>
StrC == <<"c">>
StrOK == <<"O", "K">>
StrERROR == <<"E", "R", "R", "O", "R">>
\* A nil pointer, and pointers to a value.
Absent == [present |-> FALSE]
Float(n) == [present |-> TRUE, f |-> n]
String(str) == [present |-> TRUE, s |-> str]
FloatValues == {Absent, Float(0), Float(15000001), Float(15000002), Float(-5000000)}
TimestampValues == {1, 11}
MaxChanges == 2

BaseNotification ==
    [Event |-> [TriggerID |-> StrA, Metric |-> StrC, State |-> StrOK,
                OldState |-> StrERROR, Timestamp |-> 1, Value |-> Absent,
                Message |-> Absent, SubscriptionID |-> Absent, ContactID |-> StrA],
     Trigger |-> [ID |-> StrA, Name |-> StrA],
     Contact |-> [Type |-> StrA, Value |-> StrBC, ID |-> StrA],
     Plotting |-> [Enabled |-> FALSE],
     Throttled |-> FALSE,
     SendFail |-> 0,
     Timestamp |-> 1]

\* The notifications that differ from n in one field.
Rewrites(n) ==
    {[n EXCEPT !.Contact.Type = v] : v \in {StrA, StrAB}}
      \cup {[n EXCEPT !.Contact.Value = v] : v \in {StrBC, StrC}}
      \cup {[n EXCEPT !.Contact.ID = v] : v \in {StrA, StrC}}
      \cup {[n EXCEPT !.Event.TriggerID = v] : v \in {StrA, StrAB}}
      \cup {[n EXCEPT !.Event.Metric = v] : v \in {StrC, StrBC}}
      \cup {[n EXCEPT !.Event.State = v] : v \in {StrOK, StrERROR}}
      \cup {[n EXCEPT !.Event.OldState = v] : v \in {StrOK, StrERROR}}
      \cup {[n EXCEPT !.Event.Timestamp = v] : v \in TimestampValues}
      \cup {[n EXCEPT !.Event.Value = v] : v \in FloatValues}
      \cup {[n EXCEPT !.Event.Message = v] : v \in {Absent, String(StrA)}}
      \cup {[n EXCEPT !.Event.SubscriptionID = v] : v \in {Absent, String(StrA)}}
      \cup {[n EXCEPT !.Trigger.Name = v] : v \in {StrA, StrC}}
      \cup {[n EXCEPT !.Plotting.Enabled = v] : v \in BOOLEAN}
      \cup {[n EXCEPT !.Throttled = v] : v \in BOOLEAN}
      \cup {[n EXCEPT !.SendFail = v] : v \in {0, 1}}
      \cup {[n EXCEPT !.Timestamp = v] : v \in TimestampValues}

\* Another notification is built: one more field of n2 differs.
RewriteField ==
    /\ changes < MaxChanges
    /\ n2' \in Rewrites(n2) \ {n2}
    /\ changes' = changes + 1
    /\ keys' = None
    /\ UNCHANGED <<n1, checkVars, ignoreVars, schedVars, searchVars, subjectVars>>

\* Both notifications are asked for their key.
CallGetKey ==
    /\ keys.op = "none"
    /\ keys' = [op |-> "GetKey", k1 |-> GetKey(n1), k2 |-> GetKey(n2)]
    /\ UNCHANGED <<n1, n2, changes, checkVars, ignoreVars, schedVars, searchVars, subjectVars>>

(***************************************************************************)
(* The trigger search index: Index.SearchTriggers, TriggerIndex.Search      *)
(***************************************************************************)
\* Characters in ASCII order.
Alphabet == <<" ", "-", ".", "a", "b", "c", "d", "i", "k", "p", "s", "u">>
CharRank(c) == CHOOSE i \in 1 .. Len(Alphabet) : Alphabet[i] = c

\* escapeString: the characters of the regexp class
\* [|+\-=&<>!(){}\[\]^"'~*?\\/.,:;_@] become a space.
EscapedChars == {"-", "."}
escapeString(original) ==
    [i \in 1 .. Len(original) |->
        IF original[i] \in EscapedChars THEN " " ELSE original[i]]

\* strings.Fields: the maximal runs of characters that are not white space.
RECURSIVE Fields(_, _, _)
Fields(str, word, i) ==
    IF i > Len(str)
    THEN IF word = <<>> THEN <<>> ELSE <<word>>
    ELSE IF str[i] = " "
         THEN (IF word = <<>> THEN <<>> ELSE <<word>>) \o Fields(str, <<>>, i + 1)
         ELSE Fields(str, Append(word, str[i]), i + 1)

\* splitStringToTerms
splitStringToTerms(searchString) == Fields(escapeString(searchString), <<>>, 1)

Range(seq) == {seq[i] : i \in 1 .. Len(seq)}

\* The triggers of the database with the score of their last check.
NameDiskA == <<"d", "i", "s", "k", " ", "a">>
NameDiskB == <<"d", "i", "s", "k", " ", "b">>
NameCpuDisk == <<"c", "p", "u", " ", "d", "i", "s", "k">>
NameDiskCpuA == <<"d", "i", "s", "k", " ", "c", "p", "u", " ", "a">>
Triggers ==
    {[ID |-> "t1", Name |-> NameDiskA, Tags |-> {"x"}, Score |-> 1000],
     [ID |-> "t2", Name |-> NameDiskB, Tags |-> {"x", "y"}, Score |-> 100],
     [ID |-> "t3", Name |-> NameCpuDisk, Tags |-> {"y"}, Score |-> 0],
     [ID |-> "t4", Name |-> NameDiskCpuA, Tags |-> {"x"}, Score |-> 100]}

\* The arguments of a search.
TagFilters == {{}, {"x"}, {"x", "y"}}
SearchStrings == {<<>>, <<"d", "i", "s", "k">>, <<"c", "p", "u", ".", "d", "i", "s", "k">>}
MaxPage == 2
MaxSize == 2
Pages == 0 .. MaxPage
Sizes == -1 .. MaxSize

\* A query satisfied by any one of the filter tags instead of all of them.
MatchesAnyTag(doc, filterTags, searchTerms, onlyErrors) ==
    /\ filterTags = {} \/ filterTags \cap doc.Tags # {}
    /\ Range(searchTerms) \subseteq Range(Fields(doc.Name, <<>>, 1))
    /\ onlyErrors => doc.Score > 0

\* buildSearchQuery: every filter tag is a tag of the trigger, every term is
\* a word of its name, and with onlyErrors its score is above zero.
Matches(doc, filterTags, searchTerms, onlyErrors) ==
    /\ filterTags \subseteq doc.Tags
    /\ Range(searchTerms) \subseteq Range(Fields(doc.Name, <<>>, 1))
    /\ onlyErrors => doc.Score > 0

\* The relevance (_score) of a hit: each term of the query found in the name
\* adds a term weight divided by the length of the name in words, so a
\* longer name is less relevant; without search terms every hit scores alike.
RelevanceUnit == 60
Relevance(doc, searchTerms) ==
    Len(searchTerms) * (RelevanceUnit \div Len(Fields(doc.Name, <<>>, 1)))

\* Lexicographic order of two names.
NameLess(a, b) ==
    \E i \in 1 .. Len(a) + 1 :
        /\ \A j \in 1 .. i - 1 : j <= Len(b) /\ a[j] = b[j]
        /\ \/ i = Len(a) + 1 /\ Len(b) >= i
           \/ i <= Len(a) /\ i <= Len(b) /\ CharRank(a[i]) < CharRank(b[i])

\* A sort by score descending and name ascending that leaves relevance out.
SortsBeforeByName(a, b, searchTerms) ==
    \/ a.Score > b.Score
    \/ a.Score = b.Score /\ NameLess(a.Name, b.Name)

\* req.SortBy({"-last_check_score", "_score", "name"}): score descending,
\* relevance ascending, name ascending.
SortsBefore(a, b, searchTerms) ==
    \/ a.Score > b.Score
    \/ /\ a.Score = b.Score
       /\ \/ Relevance(a, searchTerms) < Relevance(b, searchTerms)
          \/ /\ Relevance(a, searchTerms) = Relevance(b, searchTerms)
             /\ NameLess(a.Name, b.Name)

RECURSIVE Sorted(_, _)
Sorted(hits, searchTerms) ==
    IF hits = {} THEN <<>>
    ELSE LET first == CHOOSE a \in hits :
                         \A b \in hits \ {a} : SortsBefore(a, b, searchTerms)
         IN <<first>> \o Sorted(hits \ {first}, searchTerms)

\* The request with from = page instead of page*size.
SearchRequestFromPage(index, filterTags, searchString, onlyErrors, page, size) ==
    LET searchTerms == splitStringToTerms(searchString)
        hits == {d \in index : Matches(d, filterTags, searchTerms, onlyErrors)}
        ordered == Sorted(hits, searchTerms)
        from == page
        last == IF from + size < Len(ordered) THEN from + size ELSE Len(ordered)
    IN [Hits |-> SubSeq(ordered, from + 1, last), Total |-> Cardinality(hits)]

\* index.index.Search(req) of a request built by buildSearchRequest: the hits
\* from position from = page*size on, at most size of them, and the number of
\* all matching documents.
SearchRequest(index, filterTags, searchString, onlyErrors, page, size) ==
    LET searchTerms == splitStringToTerms(searchString)
        hits == {d \in index : Matches(d, filterTags, searchTerms, onlyErrors)}
        ordered == Sorted(hits, searchTerms)
        from == page * size
        last == IF from + size < Len(ordered) THEN from + size ELSE Len(ordered)
    IN [Hits |-> SubSeq(ordered, from + 1, last), Total |-> Cardinality(hits)]

\* Search that keeps the page it was given when size < 0.
SearchKeepPage(index, filterTags, searchString, onlyErrors, page, size) ==
    LET size1 == IF size < 0 THEN Cardinality(index) ELSE size
        searchResult == SearchRequest(index, filterTags, searchString, onlyErrors,
                                      page, size1)
    IN [err |-> FALSE,
        ids |-> [i \in 1 .. Len(searchResult.Hits) |-> searchResult.Hits[i].ID],
        total |-> searchResult.Total]

\* func (index *TriggerIndex) Search(filterTags, searchString, onlyErrors, page, size)
Search(index, filterTags, searchString, onlyErrors, page, size) ==
    LET page1 == IF size < 0 THEN 0 ELSE page
        size1 == IF size < 0 THEN Cardinality(index) ELSE size
        searchResult == SearchRequest(index, filterTags, searchString, onlyErrors,
                                      page1, size1)
    IN [err |-> FALSE,
        ids |-> [i \in 1 .. Len(searchResult.Hits) |-> searchResult.Hits[i].ID],
        total |-> searchResult.Total]

\* SearchTriggers that forgets to look at the ready flag.
SearchTriggersUnchecked(index, ready, filterTags, searchString, onlyErrors, page, size) ==
    Search(index, filterTags, searchString, onlyErrors, page, size)

\* func (index *Index) SearchTriggers(...): an index that is not ready answers
\* with an error, no results and total 0; a ready one with Search.
SearchTriggers(index, ready, filterTags, searchString, onlyErrors, page, size) ==
    IF ~ready
    THEN [err |-> TRUE, ids |-> <<>>, total |-> 0]
    ELSE Search(index, filterTags, searchString, onlyErrors, page, size)

\* fillIndex puts one more trigger of the database into the index.
FillStep ==
    /\ \E t \in toFill :
          /\ docs' = docs \cup {t}
          /\ toFill' = toFill \ {t}
    /\ searchRet' = None
    /\ UNCHANGED <<indexed, checkVars, ignoreVars, schedVars, keyVars, subjectVars>>

\* index.indexed = true, once fillIndex has returned.
MarkReady ==
    /\ toFill = {}
    /\ ~indexed
    /\ indexed' = TRUE
    /\ searchRet' = None
    /\ UNCHANGED <<docs, toFill, checkVars, ignoreVars, schedVars, keyVars, subjectVars>>

\* index.indexed = false on a filled index.
ClearReady ==
    /\ indexed
    /\ indexed' = FALSE
    /\ searchRet' = None
    /\ UNCHANGED <<docs, toFill, checkVars, ignoreVars, schedVars, keyVars, subjectVars>>

CallSearchTriggers ==
    \E filterTags \in TagFilters, searchString \in SearchStrings,
       onlyErrors \in BOOLEAN, page \in Pages, size \in Sizes :
        /\ searchRet' =
              [op |-> "SearchTriggers", filterTags |-> filterTags,
               searchString |-> searchString, onlyErrors |-> onlyErrors,
               page |-> page, size |-> size]
              @@ SearchTriggers(docs, indexed, filterTags, searchString,
                                onlyErrors, page, size)
        /\ UNCHANGED <<docs, toFill, indexed, checkVars, ignoreVars, schedVars, keyVars, subjectVars>>

(***************************************************************************)
(* NotificationEvents.GetSubjectState                                      *)
(***************************************************************************)
\* var eventStates
eventStates == <<"OK", "WARN", "ERROR", "NODATA", "EXCEPTION", "TEST">>

\* The states that occur in a list of events (the map states of the code).
StatesOf(evts) == {evts[i].State : i \in 1 .. Len(evts)}

\* GetSubjectState that stops at the first state of eventStates that occurs.
GetSubjectStateFirst(evts) ==
    LET present == {i \in 1 .. Len(eventStates) : eventStates[i] \in StatesOf(evts)}
    IN IF present = {} THEN ""
       ELSE eventStates[CHOOSE i \in present : \A j \in present : i <= j]

\* The second loop: walk eventStates from position i, keeping in result the
\* last state seen that occurs in the events.
RECURSIVE LastListed(_, _, _)
LastListed(states, i, result) ==
    IF i > Len(eventStates) THEN result
    ELSE LastListed(states, i + 1,
                    IF eventStates[i] \in states THEN eventStates[i] ELSE result)

\* func (events NotificationEvents) GetSubjectState() string
GetSubjectState(evts) == LastListed(StatesOf(evts), 1, "")

MaxEvents == 3

\* One more event is appended to the list.
AppendEvent ==
    \E state \in States :
        /\ Len(events) < MaxEvents
        /\ events' = Append(events, [State |-> state])
        /\ subjectRet' = None
        /\ UNCHANGED <<checkVars, ignoreVars, schedVars, keyVars, searchVars>>

CallGetSubjectState ==
    /\ subjectRet' = [op |-> "GetSubjectState", val |-> GetSubjectState(events)]
    /\ UNCHANGED <<events, checkVars, ignoreVars, schedVars, keyVars, searchVars>>

(***************************************************************************)
(* Initial values of each group                                            *)
(***************************************************************************)
IdleCheck ==
    /\ trigger = [TTL |-> 0, TTLState |-> "NODATA"]
    /\ checkData = EmptyCheckData
    /\ ret = None

IdleIgnore ==
    /\ subscription = [IgnoreWarnings |-> FALSE, IgnoreRecoverings |-> FALSE]
    /\ eventData = [OldState |-> "OK", State |-> "OK"]
    /\ ignoreRet = None

IdleSched == schedule = NilSchedule /\ schedTs = 0 /\ schedRet = None

IdleKey == n1 = BaseNotification /\ n2 = BaseNotification /\ changes = 0 /\ keys = None

IdleSearch == docs = {} /\ toFill = {} /\ indexed = FALSE /\ searchRet = None

IdleSubject == events = <<>> /\ subjectRet = None

(***************************************************************************)
(* Specifications                                                          *)
(***************************************************************************)
InitScore ==
    /\ trigger = [TTL |-> 0, TTLState |-> "NODATA"]
    /\ \E st \in States, ms \in MetricMaps, sc \in PrevScores :
          checkData = [EmptyCheckData EXCEPT !.State = st, !.Metrics = ms, !.Score = sc]
    /\ ret = None
    /\ IdleIgnore /\ IdleSched /\ IdleKey /\ IdleSearch /\ IdleSubject

NextScore == SetState \/ SetMetricState \/ UpdateScore

SpecScore == InitScore /\ [][NextScore]_vars

InitCheck ==
    /\ trigger \in [TTL : TTLs, TTLState : TTLStates]
    /\ checkData = EmptyCheckData
    /\ ret = None
    /\ IdleIgnore /\ IdleSched /\ IdleKey /\ IdleSearch /\ IdleSubject

NextCheck == GetOrCreateMetricState \/ CheckTrigger

SpecCheck == InitCheck /\ [][NextCheck]_vars

InitIgnore ==
    /\ subscription \in Subscriptions
    /\ eventData \in Events
    /\ ignoreRet = None
    /\ IdleCheck /\ IdleSched /\ IdleKey /\ IdleSearch /\ IdleSubject

NextIgnore == CallMustIgnore \/ NextEvent

SpecIgnore == InitIgnore /\ [][NextIgnore]_vars

InitSched ==
    /\ schedule \in Schedules
    /\ schedTs \in Timestamps
    /\ schedRet = None
    /\ IdleCheck /\ IdleIgnore /\ IdleKey /\ IdleSearch /\ IdleSubject

NextSched == CallIsScheduleAllows \/ NextTimestamp

SpecSched == InitSched /\ [][NextSched]_vars
InitKey ==
    /\ n1 \in Rewrites(BaseNotification)
    /\ n2 = n1
    /\ changes = 0
    /\ keys = None
    /\ IdleCheck /\ IdleIgnore /\ IdleSched /\ IdleSearch /\ IdleSubject

NextKey == RewriteField \/ CallGetKey

SpecKey == InitKey /\ [][NextKey]_vars

InitSearch ==
    /\ docs = {}
    /\ toFill = Triggers
    /\ indexed = FALSE
    /\ searchRet = None
    /\ IdleCheck /\ IdleIgnore /\ IdleSched /\ IdleKey /\ IdleSubject

NextSearch == FillStep \/ MarkReady \/ ClearReady \/ CallSearchTriggers

SpecSearch == InitSearch /\ [][NextSearch]_vars

InitSubject ==
    /\ events = <<>>
    /\ subjectRet = None
    /\ IdleCheck /\ IdleIgnore /\ IdleSched /\ IdleKey /\ IdleSearch

NextSubject == AppendEvent \/ CallGetSubjectState

SpecSubject == InitSubject /\ [][NextSubject]_vars

(***************************************************************************)
(* Properties                                                              *)
(***************************************************************************)
\* The weights as the score rule states them.
CountState(cd, s) == Cardinality({m \in DOMAIN cd.Metrics : cd.Metrics[m].State = s})

StateWeight(s) ==
    IF s = "WARN" THEN 1
    ELSE IF s = "ERROR" THEN 100
    ELSE IF s = "NODATA" THEN 1000
    ELSE IF s = "EXCEPTION" THEN 100000
    ELSE 0

ExpectedScore(cd) ==
    StateWeight(cd.State) + CountState(cd, "WARN") + 100 * CountState(cd, "ERROR")
      + 1000 * CountState(cd, "NODATA") + 100000 * CountState(cd, "EXCEPTION")

\* C1: after UpdateScore the Score is weight(State) plus the sum of the weights
\* of the metrics' states (OK=0, DEL=0, WARN=1, ERROR=100, NODATA=1000,
\* EXCEPTION=100000), whatever Score was before, and the call returns it.
C1_ScoreIsWeightSum ==
    ret.op = "UpdateScore" =>
        /\ checkData.Score = ExpectedScore(checkData)
        /\ ret.val = checkData.Score

\* An UpdateScore that replaced a different Score by 100000 + 100 + 1000.
C1_Witness ==
    /\ ret.op = "UpdateScore"
    /\ ret.stale
    /\ checkData.State = "EXCEPTION"
    /\ checkData.Score = 101100

\* The ignore rule as stated: weights OK 0, WARN 1, ERROR 100, NODATA 10000.
RuleWeighted(s) == s \in {"OK", "WARN", "ERROR", "NODATA"}
RuleWeight(s) ==
    IF s = "WARN" THEN 1 ELSE IF s = "ERROR" THEN 100 ELSE IF s = "NODATA" THEN 10000 ELSE 0

RuleIgnores(sub, ev) ==
    LET delta == RuleWeight(ev.State) - RuleWeight(ev.OldState)
    IN /\ RuleWeighted(ev.OldState)
       /\ RuleWeighted(ev.State)
       /\ \/ delta < 0 /\ sub.IgnoreRecoverings
          \/ delta = -1 /\ sub.IgnoreWarnings
          \/ delta = 1 /\ sub.IgnoreWarnings

\* C2: MustIgnore follows the rule: a recovery (delta < 0) is ignored with
\* ignoreRecoverings, and also with ignoreWarnings when delta = -1; a step into
\* WARN (delta = +1) is ignored exactly with ignoreWarnings; nothing else is
\* ignored.  OK -> WARN with ignoreWarnings is ignored, WARN -> ERROR is kept.
C2_MustIgnoreRule ==
    ignoreRet.op = "MustIgnore" =>
        /\ ignoreRet.val = RuleIgnores(subscription, eventData)
        /\ (eventData.OldState = "OK" /\ eventData.State = "WARN"
              /\ subscription.IgnoreWarnings) => ignoreRet.val
        /\ (eventData.OldState = "WARN" /\ eventData.State = "ERROR") => ~ignoreRet.val

\* WARN -> ERROR with both flags set is kept.
C2_Witness ==
    /\ ignoreRet.op = "MustIgnore"
    /\ eventData = [OldState |-> "WARN", State |-> "ERROR"]
    /\ subscription.IgnoreWarnings
    /\ subscription.IgnoreRecoverings
    /\ ~ignoreRet.val

\* The time of day and the day of the week of ts in the schedule's timezone,
\* as the calendar gives them (floor division), Monday = 0.
LocalSeconds(sch, ts) == ts - sch.TimezoneOffset * 60
MinuteOfDay(sch, ts) == (LocalSeconds(sch, ts) \div 60) % MinutesPerDay
LocalDay(sch, ts) == ((LocalSeconds(sch, ts) \div SecondsPerDay) + 3) % 7
AfterEpoch(sch, ts) == ts >= 0 /\ LocalSeconds(sch, ts) >= 0
Called == schedRet.op = "IsScheduleAllows"
Wraps(sch) == ~sch.nil /\ sch.EndOffset < sch.StartOffset

\* C3: with a wrapping window and the days enabled, IsScheduleAllows(ts) is true
\* exactly when the minute of day lies in [startOffset, 24h) or [0, endOffset).
\* Stated for timestamps at or after the epoch and every day enabled.
C3_WrapWindow ==
    (Called /\ Wraps(schedule) /\ schedule.Days = AllDays /\ AfterEpoch(schedule, schedTs)) =>
        /\ ~schedRet.panic
        /\ schedRet.val = (\/ MinuteOfDay(schedule, schedTs) >= schedule.StartOffset
                           \/ MinuteOfDay(schedule, schedTs) < schedule.EndOffset)

\* C3, the scenario alone: 22:00-06:00, tz 0, all days: 23:00 and 05:00 are
\* allowed, 10:00 is denied.
C3_Scenario ==
    (Called /\ ~schedule.nil /\ schedule.Days = AllDays
       /\ schedule.StartOffset = 1320 /\ schedule.EndOffset = 360
       /\ schedule.TimezoneOffset = 0 /\ schedTs >= 0) =>
        /\ MinuteOfDay(schedule, schedTs) \in {1380, 300} => schedRet.val
        /\ MinuteOfDay(schedule, schedTs) = 600 => ~schedRet.val

\* C4 as claimed: after midnight in a wrapping window the flag consulted is the
\* one of the day before, on which the window started.
C4_StartDayFlag ==
    (Called /\ Wraps(schedule) /\ Len(schedule.Days) = 7
       /\ MinuteOfDay(schedule, schedTs) < schedule.EndOffset) =>
        schedRet.val = schedule.Days[((LocalDay(schedule, schedTs) + 6) % 7) + 1]

\* C4: after midnight in a wrapping window the flag consulted is the one of the
\* calendar day that holds the timestamp: the call returns that flag.
C4_CalendarDayFlag ==
    (Called /\ Wraps(schedule) /\ Len(schedule.Days) = 7
       /\ MinuteOfDay(schedule, schedTs) < schedule.EndOffset) =>
        /\ ~schedRet.panic
        /\ schedRet.val = schedule.Days[LocalDay(schedule, schedTs) + 1]

\* Allowed after midnight on an enabled day although the day before is disabled.
C4_Witness ==
    /\ Called /\ Wraps(schedule) /\ Len(schedule.Days) = 7
    /\ MinuteOfDay(schedule, schedTs) < schedule.EndOffset
    /\ schedule.Days[LocalDay(schedule, schedTs) + 1]
    /\ ~schedule.Days[((LocalDay(schedule, schedTs) + 6) % 7) + 1]
    /\ schedRet.val

C6_Total ==
    Called =>
        /\ ~schedRet.panic
        /\ schedule.nil => schedRet.val
\* C8: GetOrCreateMetricState for a metric absent from Metrics stores and
\* returns a new state: NODATA with timestamp emptyTimestampValue and event
\* timestamp 0 when muteNewMetric is false; OK with both timestamps the current
\* time when it is true; no value, maintenance 0, not suppressed.
C8_NewMetricState ==
    [][\A metric \in MetricNames, emptyTimestampValue \in EmptyTimestamps,
          muteNewMetric \in BOOLEAN, unixNow \in Nows :
          (/\ metric \notin DOMAIN checkData.Metrics
           /\ GetOrCreateMetricStateWith(metric, emptyTimestampValue, muteNewMetric, unixNow))
          => /\ metric \in DOMAIN checkData'.Metrics
             /\ ret'.val = checkData'.Metrics[metric]
             /\ ret'.val.Value = Nil
             /\ ret'.val.Maintenance = 0
             /\ ret'.val.Suppressed = FALSE
             /\ IF muteNewMetric
                THEN /\ ret'.val.State = "OK"
                     /\ ret'.val.Timestamp = unixNow
                     /\ ret'.val.EventTimestamp = unixNow
                ELSE /\ ret'.val.State = "NODATA"
                     /\ ret'.val.Timestamp = emptyTimestampValue
                     /\ ret'.val.EventTimestamp = 0]_vars

\* A muted metric m1 created at 1400 is held, and m2 was just created unmuted
\* with the empty timestamp 880.
C8_Witness ==
    /\ ret.op = "GetOrCreateMetricState"
    /\ ret.created
    /\ ret.metric = "m2"
    /\ ret.val.State = "NODATA"
    /\ ret.val.Timestamp = 880
    /\ "m1" \in DOMAIN checkData.Metrics
    /\ checkData.Metrics["m1"].State = "OK"
    /\ checkData.Metrics["m1"].Timestamp = 1400

\* The NODATA-via-TTL scenario: ttl 300, ttl state NODATA, the single metric m2
\* is OK and was last sampled at 1000.
TTLScenario ==
    /\ trigger = [TTL |-> 300, TTLState |-> "NODATA"]
    /\ DOMAIN checkData.Metrics = {"m2"}
    /\ checkData.Metrics["m2"].State = "OK"
    /\ checkData.Metrics["m2"].Timestamp = 1000

\* C9 as claimed: the check at 1400 leaves the aggregate state NODATA, m2 in
\* NODATA and the score 1000.
C9_ScenarioScore1000 ==
    [][(TTLScenario /\ CheckTriggerAt(1400)) =>
          /\ checkData'.State = "NODATA"
          /\ checkData'.Metrics["m2"].State = "NODATA"
          /\ checkData'.Score = 1000]_vars

\* C9: the check at 1400 leaves the aggregate state NODATA, m2 in NODATA and
\* the score 2000: 1000 for the aggregate state and 1000 for m2.
C9_ScenarioScore2000 ==
    [][(TTLScenario /\ CheckTriggerAt(1400)) =>
          /\ checkData'.State = "NODATA"
          /\ checkData'.Metrics["m2"].State = "NODATA"
          /\ checkData'.Score = 2000]_vars

\* The state the check at 1400 leaves in the scenario.
C9_Witness ==
    /\ ret.op = "Check"
    /\ ret.now = 1400
    /\ trigger = [TTL |-> 300, TTLState |-> "NODATA"]
    /\ DOMAIN checkData.Metrics = {"m2"}
    /\ checkData.Metrics["m2"].State = "NODATA"
    /\ checkData.Metrics["m2"].Timestamp = 1000
    /\ checkData.Metrics["m2"].EventTimestamp = 1400
    /\ checkData.State = "NODATA"
    /\ checkData.Score = 2000
\* The fields the key is made of.
AgreeStrings(a, b) ==
    /\ a.Contact.Type = b.Contact.Type
    /\ a.Contact.Value = b.Contact.Value
    /\ a.Event.TriggerID = b.Event.TriggerID
    /\ a.Event.Metric = b.Event.Metric
    /\ a.Event.State = b.Event.State

AgreeNumbers(a, b) ==
    /\ a.Event.Timestamp = b.Event.Timestamp
    /\ a.SendFail = b.SendFail
    /\ a.Throttled = b.Throttled
    /\ a.Timestamp = b.Timestamp

AgreeListed(a, b) ==
    AgreeStrings(a, b) /\ AgreeNumbers(a, b) /\ a.Event.Value = b.Event.Value

\* The event value as the key shows it: to six decimals, 0 when absent.
SixDecimals(v) ==
    IF ~v.present THEN 0
    ELSE IF v.f >= 0 THEN (v.f + FloatUnit \div 2000000) \div (FloatUnit \div 1000000)
    ELSE -((-v.f + FloatUnit \div 2000000) \div (FloatUnit \div 1000000))

HasColon(str) == \E i \in 1 .. Len(str) : str[i] = ":"
NoColon(n) ==
    ~\E str \in {n.Contact.Type, n.Contact.Value, n.Event.TriggerID,
                 n.Event.Metric, n.Event.State} : HasColon(str)

\* C7 as claimed: two notifications have the same key exactly when they agree
\* on the ten fields of the key.  Stated for notifications whose event value
\* is present, where the key is the text GetKey formats and nothing else.
C7_KeyExact ==
    (keys.op = "GetKey" /\ n1.Event.Value.present /\ n2.Event.Value.present) =>
        ((keys.k1 = keys.k2) <=> AgreeListed(n1, n2))

\* C7: notifications that agree on the ten fields have the same key, whatever
\* their other fields are; notifications whose string fields hold no ':' have
\* different keys when they differ in a string field, a number or a flag of
\* the key, or in the event value as shown to six decimals (absent shown as 0).
C7_KeyOfFields ==
    keys.op = "GetKey" =>
        /\ AgreeListed(n1, n2) => keys.k1 = keys.k2
        /\ (/\ NoColon(n1) /\ NoColon(n2)
            /\ \/ ~AgreeStrings(n1, n2)
               \/ ~AgreeNumbers(n1, n2)
               \/ SixDecimals(n1.Event.Value) # SixDecimals(n2.Event.Value))
           => keys.k1 # keys.k2

\* Two notifications that differ only in fields outside the key share it.
C7_Witness ==
    /\ keys.op = "GetKey"
    /\ AgreeListed(n1, n2)
    /\ n1.Event.OldState # n2.Event.OldState
    /\ n1.Contact.ID # n2.Contact.ID
    /\ keys.k1 = keys.k2
DocOf(id) == CHOOSE d \in Triggers : d.ID = id
Searched == searchRet.op = "SearchTriggers" /\ ~searchRet.err
Wanted ==
    {d \in docs :
        /\ searchRet.filterTags \subseteq d.Tags
        /\ searchRet.onlyErrors => d.Score > 0
        /\ \A term \in Range(splitStringToTerms(searchRet.searchString)) :
              term \in Range(Fields(d.Name, <<>>, 1))}

\* C11: with size < 0 the search returns every matching trigger once, highest
\* score first, and total is the number of results, whatever the page is.
C11_SizeNegativeReturnsAll ==
    (Searched /\ searchRet.size < 0) =>
        /\ Range(searchRet.ids) = {d.ID : d \in Wanted}
        /\ Len(searchRet.ids) = Cardinality(Wanted)
        /\ searchRet.total = Len(searchRet.ids)
        /\ \A i, j \in 1 .. Len(searchRet.ids) :
              i < j => DocOf(searchRet.ids[i]).Score >= DocOf(searchRet.ids[j]).Score

\* A search with size -1 and the last page that returns all four triggers.
C11_Witness ==
    /\ Searched
    /\ searchRet.size = -1
    /\ searchRet.page = MaxPage
    /\ Len(searchRet.ids) = 4
    /\ searchRet.total = 4

\* The full ordered list of a search, and its page of a given size.
FullList ==
    Search(docs, searchRet.filterTags, searchRet.searchString, searchRet.onlyErrors,
           0, -1).ids
PageOf(full, page, size) ==
    LET left == Len(full) - page * size
        n == IF left < 0 THEN 0 ELSE IF left < size THEN left ELSE size
    IN [i \in 1 .. n |-> full[page * size + i]]

RECURSIVE PagesFrom(_, _, _)
PagesFrom(page, size, lastPage) ==
    IF page > lastPage THEN <<>>
    ELSE Search(docs, searchRet.filterTags, searchRet.searchString,
                searchRet.onlyErrors, page, size).ids
           \o PagesFrom(page + 1, size, lastPage)

\* C12: for page >= 0 and size > 0 the results are the elements at positions
\* [page*size, page*size + size) of the full ordered list, total is the number
\* of all matching triggers, and the pages 0, 1, 2, ... joined are the full list.
C12_PageIsSlice ==
    (Searched /\ searchRet.page >= 0 /\ searchRet.size > 0) =>
        /\ searchRet.ids = PageOf(FullList, searchRet.page, searchRet.size)
        /\ searchRet.total = Cardinality(Wanted)
        /\ PagesFrom(0, searchRet.size, Len(FullList)) = FullList

\* The second page of size 1 of a list of four: one result, total 4.
C12_Witness ==
    /\ Searched
    /\ searchRet.page = 1
    /\ searchRet.size = 1
    /\ Len(FullList) = 4
    /\ searchRet.ids = <<FullList[2]>>
    /\ searchRet.total = 4
\* The terms of the search and the triggers at two positions of the result.
SearchTerms == splitStringToTerms(searchRet.searchString)
Hit(i) == DocOf(searchRet.ids[i])
NameLessOrEqual(a, b) == a = b \/ NameLess(a, b)

\* C13 as stated: results are in descending score order, and among results
\* with equal scores the one with the smaller name comes first.
C13_NameBreaksScoreTies ==
    Searched =>
        \A i, j \in 1 .. Len(searchRet.ids) :
            i < j =>
                /\ Hit(i).Score >= Hit(j).Score
                /\ Hit(i).Score = Hit(j).Score
                      => NameLessOrEqual(Hit(i).Name, Hit(j).Name)

\* C13: results are in descending score order; among results with equal
\* scores the less relevant comes first; among results with equal scores and
\* equal relevance the one with the smaller name comes first.
C13_SortOrder ==
    Searched =>
        \A i, j \in 1 .. Len(searchRet.ids) :
            i < j =>
                /\ Hit(i).Score >= Hit(j).Score
                /\ Hit(i).Score = Hit(j).Score
                      => Relevance(Hit(i), SearchTerms) <= Relevance(Hit(j), SearchTerms)
                /\ (/\ Hit(i).Score = Hit(j).Score
                    /\ Relevance(Hit(i), SearchTerms) = Relevance(Hit(j), SearchTerms))
                      => NameLessOrEqual(Hit(i).Name, Hit(j).Name)

\* All four triggers match "disk": scores 1000, 100, 100, 0 come in that
\* order, and of the two with score 100 the longer, less relevant name
\* "disk cpu a" precedes "disk b".
C13_Witness ==
    /\ Searched
    /\ searchRet.searchString = <<"d", "i", "s", "k">>
    /\ searchRet.ids = <<"t1", "t4", "t2", "t3">>
\* C14: every returned trigger carries every filter tag and, when onlyErrors
\* is set, has a score above zero; every indexed trigger that passes the tag,
\* score and search-term filters is counted in total; with no tags, an empty
\* search string and onlyErrors false every indexed trigger is counted.
C14_FiltersHold ==
    Searched =>
        /\ \A i \in 1 .. Len(searchRet.ids) :
              /\ Hit(i) \in docs
              /\ searchRet.filterTags \subseteq Hit(i).Tags
              /\ searchRet.onlyErrors => Hit(i).Score > 0
        /\ searchRet.total = Cardinality(Wanted)
        /\ (/\ searchRet.filterTags = {}
            /\ searchRet.searchString = <<>>
            /\ ~searchRet.onlyErrors) => searchRet.total = Cardinality(docs)

\* A search of the full index for tags x and y, errors only and the term
\* "disk": of the triggers tagged x only "disk b" also carries y.
C14_Witness ==
    /\ Searched
    /\ docs = Triggers
    /\ searchRet.filterTags = {"x", "y"}
    /\ searchRet.onlyErrors
    /\ searchRet.searchString = <<"d", "i", "s", "k">>
    /\ searchRet.size = -1
    /\ searchRet.ids = <<"t2">>
    /\ searchRet.total = 1
\* The positions of eventStates whose state occurs in the events, and a list
\* of events in reverse order.
Occurring == {i \in 1 .. Len(eventStates) : \E k \in 1 .. Len(events) : events[k].State = eventStates[i]}
Reversed(evts) == [i \in 1 .. Len(evts) |-> evts[Len(evts) + 1 - i]]

\* C15: GetSubjectState returns the state that comes last in the order OK,
\* WARN, ERROR, NODATA, EXCEPTION, TEST among those that occur in the events,
\* the empty string when none of them occurs, and the same result for the
\* events in reverse order and for the events repeated.
C15_LastOccurringState ==
    subjectRet.op = "GetSubjectState" =>
        /\ Occurring = {} => subjectRet.val = ""
        /\ Occurring # {} =>
              \E i \in Occurring :
                  /\ \A j \in Occurring : j <= i
                  /\ subjectRet.val = eventStates[i]
        /\ GetSubjectState(Reversed(events)) = subjectRet.val
        /\ GetSubjectState(events \o events) = subjectRet.val

\* Events DEL, EXCEPTION, OK give EXCEPTION.
C15_Witness ==
    /\ subjectRet.op = "GetSubjectState"
    /\ events = <<[State |-> "DEL"], [State |-> "EXCEPTION"], [State |-> "OK"]>>
    /\ subjectRet.val = "EXCEPTION"

\* Only events in state DEL give the empty string.
C15_WitnessEmpty ==
    /\ subjectRet.op = "GetSubjectState"
    /\ events = <<[State |-> "DEL"], [State |-> "DEL"]>>
    /\ subjectRet.val = ""
\* C16: GetOrCreateMetricState for a metric already in Metrics returns the
\* stored state and leaves the CheckData as it was, whatever the other
\* arguments are; for an absent metric it adds that one entry and leaves every
\* other metric's state and every other field of the CheckData as they were.
C16_StoredStateKept ==
    [][\A metric \in MetricNames, emptyTimestampValue \in EmptyTimestamps,
          muteNewMetric \in BOOLEAN, unixNow \in Nows :
          GetOrCreateMetricStateWith(metric, emptyTimestampValue, muteNewMetric, unixNow)
          => IF metric \in DOMAIN checkData.Metrics
             THEN /\ checkData' = checkData
                  /\ ret'.val = checkData.Metrics[metric]
             ELSE /\ DOMAIN checkData'.Metrics = DOMAIN checkData.Metrics \cup {metric}
                  /\ \A other \in DOMAIN checkData.Metrics :
                        checkData'.Metrics[other] = checkData.Metrics[other]
                  /\ [checkData' EXCEPT !.Metrics = checkData.Metrics] = checkData]_vars

\* A call for a metric that is held, after a check has set the trigger's
\* state and score: the state held is returned and no state was created.
C16_Witness ==
    /\ ret.op = "GetOrCreateMetricState"
    /\ ~ret.created
    /\ DOMAIN checkData.Metrics = MetricNames
    /\ ret.val = checkData.Metrics[ret.metric]
    /\ ret.val.State = "OK"
    /\ checkData # [EmptyCheckData EXCEPT !.Metrics = checkData.Metrics]
====
